---- MODULE Spec2Model ----
(***************************************************************************)
(* The solmentor program (programs/solmentor/src/lib.rs): user profiles,   *)
(* quiz results and achievements kept in program-derived accounts, and the *)
(* four instructions that create and update them.  One action per          *)
(* instruction; an instruction whose account validation or handler fails   *)
(* leaves every account as it was (the transaction is rolled back).        *)
(***************************************************************************)
EXTENDS Integers, Sequences, FiniteSets, TLC

VARIABLES user_profile, quiz_result, achievement, clock, last

vars == <<user_profile, quiz_result, achievement, clock, last>>

accounts == <<user_profile, quiz_result, achievement>>

(* ---------------------------------------------------------------- bounds *)

\* The clock never advances past MaxClock, and update_streak is not called
\* once it would take the streak past MaxStreak.
MaxClock == 172800
MaxStreak == 2

\* Signers, instruction arguments and clock advances the model draws from.
Authorities == {"U"}
Usernames == {"alice"}
QuizIds == {"q1", "q2"}
AchievementIds == {"first_perfect"}
AchievementNames == {"First Perfect"}
ScoreCards == {<<8, 10>>, <<10, 10>>, <<0, 0>>, <<255, 255>>, <<10, 8>>}
ClockSteps == {86400, 86401}

(* ----------------------------------------------------------------- types *)

AchievementTier == {"Bronze", "Silver", "Gold", "Platinum"}

\* An address at which no account has been created yet.
NoAccount == [exists |-> FALSE]

NoInstruction == [ix |-> "none"]

(* ------------------------------------------------------ pure computation *)

\* time_since_last_active <= 86400
StreakWindow == 86400

XpPerCorrect == 10
PerfectBonus == 50
XpPerLevel == 100

\* The handler without its require!: every score is accepted.
ScoreAcceptedUnchecked(score, total_questions) == TRUE

ScoreAccepted(score, total_questions) == score <= total_questions

\* score * 10 computed in u8, before the widening cast.
XpEarnedNarrow(score, total_questions) ==
    ((score * XpPerCorrect) % 256)
        + (IF score = total_questions THEN PerfectBonus ELSE 0)

XpEarned(score, total_questions) ==
    score * XpPerCorrect + (IF score = total_questions THEN PerfectBonus ELSE 0)

\* profile.xp / 100 without the + 1.
LevelForZeroBased(xp) == xp \div XpPerLevel

\* The level rounded to the nearest hundred of xp, not rounded down.
LevelForRounded(xp) == ((xp + 50) \div XpPerLevel) + 1

LevelFor(xp) == (xp \div XpPerLevel) + 1

\* Every tier paid the Bronze bonus.
BonusXpFlat(tier) == 50

\* The Silver and Gold arms of the match exchanged.
BonusXpSwapped(tier) ==
    CASE tier = "Bronze" -> 50
      [] tier = "Silver" -> 200
      [] tier = "Gold" -> 100
      [] tier = "Platinum" -> 500

BonusXp(tier) ==
    CASE tier = "Bronze" -> 50
      [] tier = "Silver" -> 100
      [] tier = "Gold" -> 200
      [] tier = "Platinum" -> 500

\* time_since_last_active < 86400: the boundary second resets the streak.
StreakAfterStrict(streak, time_since_last_active) ==
    IF time_since_last_active < StreakWindow THEN streak + 1 ELSE 1

\* profile.streak = 0 in the else branch.
StreakAfterResetZero(streak, time_since_last_active) ==
    IF time_since_last_active <= StreakWindow THEN streak + 1 ELSE 0

StreakAfter(streak, time_since_last_active) ==
    IF time_since_last_active <= StreakWindow THEN streak + 1 ELSE 1

(* --------------------------------------------------- account constraints *)

\* #[account(mut, seeds = [b"user_profile", authority], bump, has_one = authority)]
ProfileLoaded(authority) == user_profile[authority] # NoAccount

\* init_if_needed in place of init: an existing profile is initialised again.
ProfileInitIfNeeded(authority) == TRUE

\* #[account(init, seeds = [b"user_profile", authority], bump)]
ProfileInitAllowed(authority) == user_profile[authority] = NoAccount

\* init_if_needed in place of init: an existing quiz_result is reopened.
QuizResultInitIfNeeded(authority, quiz_id) == TRUE

\* #[account(init, seeds = [b"quiz_result", authority, quiz_id], bump)]
QuizResultInitAllowed(authority, quiz_id) ==
    quiz_result[<<authority, quiz_id>>] = NoAccount

\* init_if_needed in place of init: an existing achievement is reopened.
AchievementInitIfNeeded(authority, achievement_id) == TRUE

\* #[account(init, seeds = [b"achievement", authority, achievement_id], bump)]
AchievementInitAllowed(authority, achievement_id) ==
    achievement[<<authority, achievement_id>>] = NoAccount

(* ------------------------------------------------------------ the state *)

Init ==
    /\ user_profile = [a \in Authorities |-> NoAccount]
    /\ quiz_result = [k \in Authorities \X QuizIds |-> NoAccount]
    /\ achievement = [k \in Authorities \X AchievementIds |-> NoAccount]
    /\ clock = 0
    /\ last = NoInstruction

\* An instruction that returned an error: nothing it wrote is kept.
Rejected(ix, error) ==
    /\ last' = [ix EXCEPT !.result = error]
    /\ UNCHANGED <<accounts, clock>>

(* --------------------------------------------------------- instructions *)

initialize_profile(authority, username) ==
    LET ix == [ix |-> "initialize_profile", authority |-> authority, result |-> "Ok"]
    IN  IF ~ProfileInitAllowed(authority)
        THEN Rejected(ix, "AccountAlreadyInUse")
        ELSE /\ user_profile' = [user_profile EXCEPT ![authority] =
                    [exists |-> TRUE,
                     authority |-> authority,
                     username |-> username,
                     xp |-> 0,
                     level |-> 1,
                     streak |-> 0,
                     quizzes_completed |-> 0,
                     achievements_earned |-> 0,
                     created_at |-> clock,
                     last_active |-> clock]]
             /\ last' = ix
             /\ UNCHANGED <<quiz_result, achievement, clock>>

\* submit_quiz with the elapsed time taken before last_active is overwritten.
submit_quiz_prior(authority, quiz_id, score, total_questions) ==
    LET ix == [ix |-> "submit_quiz", authority |-> authority, result |-> "Ok"]
    IN  IF ~ProfileLoaded(authority)
        THEN Rejected(ix, "AccountNotInitialized")
        ELSE IF ~QuizResultInitAllowed(authority, quiz_id)
        THEN Rejected(ix, "AccountAlreadyInUse")
        ELSE IF ~ScoreAccepted(score, total_questions)
        THEN Rejected(ix, "InvalidScore")
        ELSE
          LET profile == user_profile[authority]
              xp_earned == XpEarned(score, total_questions)
              time_since_last_active == clock - profile.last_active
              p1 == [profile EXCEPT !.xp = @ + xp_earned]
              p2 == [p1 EXCEPT !.quizzes_completed = @ + 1]
              p3 == [p2 EXCEPT !.last_active = clock]
              p4 == [p3 EXCEPT !.level = LevelFor(p3.xp)]
              p5 == [p4 EXCEPT !.streak = StreakAfter(@, time_since_last_active)]
          IN  /\ user_profile' = [user_profile EXCEPT ![authority] = p5]
              /\ quiz_result' = [quiz_result EXCEPT ![<<authority, quiz_id>>] =
                    [exists |-> TRUE,
                     user |-> p5.authority,
                     quiz_id |-> quiz_id,
                     score |-> score,
                     total_questions |-> total_questions,
                     xp_earned |-> xp_earned,
                     completed_at |-> clock]]
              /\ last' = ix
              /\ UNCHANGED <<achievement, clock>>

submit_quiz(authority, quiz_id, score, total_questions) ==
    LET ix == [ix |-> "submit_quiz", authority |-> authority, result |-> "Ok"]
    IN  IF ~ProfileLoaded(authority)
        THEN Rejected(ix, "AccountNotInitialized")
        ELSE IF ~QuizResultInitAllowed(authority, quiz_id)
        THEN Rejected(ix, "AccountAlreadyInUse")
        ELSE IF ~ScoreAccepted(score, total_questions)
        THEN Rejected(ix, "InvalidScore")
        ELSE
          LET profile == user_profile[authority]
              xp_earned == XpEarned(score, total_questions)
              p1 == [profile EXCEPT !.xp = @ + xp_earned]
              p2 == [p1 EXCEPT !.quizzes_completed = @ + 1]
              p3 == [p2 EXCEPT !.last_active = clock]
              p4 == [p3 EXCEPT !.level = LevelFor(p3.xp)]
              time_since_last_active == clock - p4.last_active
              p5 == [p4 EXCEPT !.streak = StreakAfter(@, time_since_last_active)]
          IN  /\ user_profile' = [user_profile EXCEPT ![authority] = p5]
              /\ quiz_result' = [quiz_result EXCEPT ![<<authority, quiz_id>>] =
                    [exists |-> TRUE,
                     user |-> p5.authority,
                     quiz_id |-> quiz_id,
                     score |-> score,
                     total_questions |-> total_questions,
                     xp_earned |-> xp_earned,
                     completed_at |-> clock]]
              /\ last' = ix
              /\ UNCHANGED <<achievement, clock>>

\* award_achievement with the level recomputed after the bonus is credited.
award_achievement_relevel(authority, achievement_id, achievement_name, achievement_tier) ==
    LET ix == [ix |-> "award_achievement", authority |-> authority, result |-> "Ok"]
    IN  IF ~ProfileLoaded(authority)
        THEN Rejected(ix, "AccountNotInitialized")
        ELSE IF ~AchievementInitAllowed(authority, achievement_id)
        THEN Rejected(ix, "AccountAlreadyInUse")
        ELSE
          LET profile == user_profile[authority]
              a == [exists |-> TRUE,
                    user |-> profile.authority,
                    achievement_id |-> achievement_id,
                    achievement_name |-> achievement_name,
                    tier |-> achievement_tier,
                    awarded_at |-> clock]
              p1 == [profile EXCEPT !.achievements_earned = @ + 1]
              p2 == [p1 EXCEPT !.xp = @ + BonusXp(a.tier)]
              p3 == [p2 EXCEPT !.level = LevelFor(p2.xp)]
          IN  /\ achievement' = [achievement EXCEPT
                                    ![<<authority, achievement_id>>] = a]
              /\ user_profile' = [user_profile EXCEPT ![authority] = p3]
              /\ last' = ix
              /\ UNCHANGED <<quiz_result, clock>>

award_achievement(authority, achievement_id, achievement_name, achievement_tier) ==
    LET ix == [ix |-> "award_achievement", authority |-> authority, result |-> "Ok"]
    IN  IF ~ProfileLoaded(authority)
        THEN Rejected(ix, "AccountNotInitialized")
        ELSE IF ~AchievementInitAllowed(authority, achievement_id)
        THEN Rejected(ix, "AccountAlreadyInUse")
        ELSE
          LET profile == user_profile[authority]
              a == [exists |-> TRUE,
                    user |-> profile.authority,
                    achievement_id |-> achievement_id,
                    achievement_name |-> achievement_name,
                    tier |-> achievement_tier,
                    awarded_at |-> clock]
              p1 == [profile EXCEPT !.achievements_earned = @ + 1]
              bonus_xp == BonusXp(a.tier)
              p2 == [p1 EXCEPT !.xp = @ + bonus_xp]
          IN  /\ achievement' = [achievement EXCEPT
                                    ![<<authority, achievement_id>>] = a]
              /\ user_profile' = [user_profile EXCEPT ![authority] = p2]
              /\ last' = ix
              /\ UNCHANGED <<quiz_result, clock>>

\* update_streak storing the elapsed time, not the current time, in last_active.
update_streak_elapsed(authority) ==
    LET ix == [ix |-> "update_streak", authority |-> authority, result |-> "Ok"]
    IN  IF ~ProfileLoaded(authority)
        THEN Rejected(ix, "AccountNotInitialized")
        ELSE
          LET profile == user_profile[authority]
              current_time == clock
              time_since_last_active == current_time - profile.last_active
              p1 == [profile EXCEPT
                        !.streak = StreakAfter(@, time_since_last_active)]
              p2 == [p1 EXCEPT !.last_active = time_since_last_active]
          IN  /\ p1.streak <= MaxStreak
              /\ user_profile' = [user_profile EXCEPT ![authority] = p2]
              /\ last' = ix
              /\ UNCHANGED <<quiz_result, achievement, clock>>

update_streak(authority) ==
    LET ix == [ix |-> "update_streak", authority |-> authority, result |-> "Ok"]
    IN  IF ~ProfileLoaded(authority)
        THEN Rejected(ix, "AccountNotInitialized")
        ELSE
          LET profile == user_profile[authority]
              current_time == clock
              time_since_last_active == current_time - profile.last_active
              p1 == [profile EXCEPT
                        !.streak = StreakAfter(@, time_since_last_active)]
              p2 == [p1 EXCEPT !.last_active = current_time]
          IN  /\ p1.streak <= MaxStreak
              /\ user_profile' = [user_profile EXCEPT ![authority] = p2]
              /\ last' = ix
              /\ UNCHANGED <<quiz_result, achievement, clock>>

\* The cluster's clock moves on between transactions.
Tick ==
    \E d \in ClockSteps :
        /\ clock + d <= MaxClock
        /\ clock' = clock + d
        /\ last' = NoInstruction
        /\ UNCHANGED accounts

InitializeProfile ==
    \E a \in Authorities, n \in Usernames : initialize_profile(a, n)

SubmitQuiz ==
    \E a \in Authorities, q \in QuizIds, c \in ScoreCards :
        submit_quiz(a, q, c[1], c[2])

AwardAchievement ==
    \E a \in Authorities, i \in AchievementIds, n \in AchievementNames,
       t \in AchievementTier : award_achievement(a, i, n, t)

UpdateStreak == \E a \in Authorities : update_streak(a)

Next ==
    \/ InitializeProfile
    \/ SubmitQuiz
    \/ AwardAchievement
    \/ UpdateStreak
    \/ Tick

Spec == Init /\ [][Next]_vars

(* ------------------------------------------------- counters at full width *)

(***************************************************************************)
(* The u64 fields at their real width.  A value is three limbs in base     *)
(* 10^7, most significant first; the handlers below are the handlers above *)
(* with every += carried out on such values.  What an overflowing += does  *)
(* is decided by the build: with overflow-checks the program panics and    *)
(* the transaction fails, without them the sum wraps modulo 2^64.          *)
(***************************************************************************)

Limb == 10 ^ 7

\* u64::MAX = 18446744073709551615
U64Max == <<184467, 4407370, 9551615>>

U64(n) == <<0, 0, n>>

\* u64::MAX - k, for k <= 9551615
BelowMax(k) == <<U64Max[1], U64Max[2], U64Max[3] - k>>

LessU64(a, b) ==
    \/ a[1] < b[1]
    \/ a[1] = b[1] /\ a[2] < b[2]
    \/ a[1] = b[1] /\ a[2] = b[2] /\ a[3] < b[3]

\* a + n for 0 <= n < 10^7: the sum modulo 2^64, and whether it overflowed.
AddU64(a, n) ==
    LET lo == a[3] + n
        mid == a[2] + (lo \div Limb)
        hi == a[1] + (mid \div Limb)
        raw == <<hi, mid % Limb, lo % Limb>>
    IN  IF LessU64(U64Max, raw)
        THEN [value |-> U64((raw[2] - U64Max[2]) * Limb + raw[3] - U64Max[3] - 1),
              overflow |-> TRUE]
        ELSE [value |-> raw, overflow |-> FALSE]

\* a / 100
DivU64By100(a) ==
    <<a[1] \div 100,
      (a[1] % 100) * (Limb \div 100) + (a[2] \div 100),
      (a[2] % 100) * (Limb \div 100) + (a[3] \div 100)>>

\* (profile.xp / 100) + 1
LevelForU64(xp) == AddU64(DivU64By100(xp), 1).value

\* A profile one of whose counters, hot, is at the top of its range, last
\* active at time 0 and called either at once or after the streak window.
InitOverflow ==
    /\ \E hot \in {"xp", "quizzes_completed", "streak", "achievements_earned"} :
        LET xp == IF hot = "xp" THEN BelowMax(99) ELSE U64(0)
        IN  user_profile = [a \in Authorities |->
                [exists |-> TRUE,
                 authority |-> a,
                 username |-> "alice",
                 xp |-> xp,
                 level |-> LevelForU64(xp),
                 streak |-> IF hot = "streak" THEN U64Max ELSE U64(1),
                 quizzes_completed |->
                    IF hot = "quizzes_completed" THEN U64Max ELSE U64(0),
                 achievements_earned |->
                    IF hot = "achievements_earned" THEN U64Max ELSE U64(0),
                 created_at |-> 0,
                 last_active |-> 0]]
    /\ quiz_result = [k \in Authorities \X QuizIds |-> NoAccount]
    /\ achievement = [k \in Authorities \X AchievementIds |-> NoAccount]
    /\ clock \in {0, StreakWindow + 1}
    /\ last = NoInstruction

submit_quiz_u64(authority, quiz_id, score, total_questions, overflow_checks) ==
    LET ix == [ix |-> "submit_quiz", authority |-> authority, result |-> "Ok"]
    IN  IF ~ProfileLoaded(authority)
        THEN Rejected(ix, "AccountNotInitialized")
        ELSE IF ~QuizResultInitAllowed(authority, quiz_id)
        THEN Rejected(ix, "AccountAlreadyInUse")
        ELSE IF ~ScoreAccepted(score, total_questions)
        THEN Rejected(ix, "InvalidScore")
        ELSE
          LET profile == user_profile[authority]
              xp_earned == XpEarned(score, total_questions)
              xp == AddU64(profile.xp, xp_earned)
              p1 == [profile EXCEPT !.xp = xp.value]
              quizzes_completed == AddU64(p1.quizzes_completed, 1)
              p2 == [p1 EXCEPT !.quizzes_completed = quizzes_completed.value]
              p3 == [p2 EXCEPT !.last_active = clock]
              p4 == [p3 EXCEPT !.level = LevelForU64(p3.xp)]
              time_since_last_active == clock - p4.last_active
              streak == AddU64(p4.streak, 1)
              p5 == IF time_since_last_active <= StreakWindow
                    THEN [p4 EXCEPT !.streak = streak.value]
                    ELSE [p4 EXCEPT !.streak = U64(1)]
              overflowed ==
                  \/ xp.overflow
                  \/ quizzes_completed.overflow
                  \/ time_since_last_active <= StreakWindow /\ streak.overflow
          IN  IF overflow_checks /\ overflowed
              THEN Rejected(ix, "ProgramPanicked")
              ELSE /\ user_profile' = [user_profile EXCEPT ![authority] = p5]
                   /\ quiz_result' = [quiz_result EXCEPT ![<<authority, quiz_id>>] =
                         [exists |-> TRUE,
                          user |-> p5.authority,
                          quiz_id |-> quiz_id,
                          score |-> score,
                          total_questions |-> total_questions,
                          xp_earned |-> U64(xp_earned),
                          completed_at |-> clock]]
                   /\ last' = ix
                   /\ UNCHANGED <<achievement, clock>>

award_achievement_u64(authority, achievement_id, achievement_name, achievement_tier, overflow_checks) ==
    LET ix == [ix |-> "award_achievement", authority |-> authority, result |-> "Ok"]
    IN  IF ~ProfileLoaded(authority)
        THEN Rejected(ix, "AccountNotInitialized")
        ELSE IF ~AchievementInitAllowed(authority, achievement_id)
        THEN Rejected(ix, "AccountAlreadyInUse")
        ELSE
          LET profile == user_profile[authority]
              a == [exists |-> TRUE,
                    user |-> profile.authority,
                    achievement_id |-> achievement_id,
                    achievement_name |-> achievement_name,
                    tier |-> achievement_tier,
                    awarded_at |-> clock]
              achievements_earned == AddU64(profile.achievements_earned, 1)
              p1 == [profile EXCEPT
                        !.achievements_earned = achievements_earned.value]
              bonus_xp == BonusXp(a.tier)
              xp == AddU64(p1.xp, bonus_xp)
              p2 == [p1 EXCEPT !.xp = xp.value]
          IN  IF overflow_checks /\ (achievements_earned.overflow \/ xp.overflow)
              THEN Rejected(ix, "ProgramPanicked")
              ELSE /\ achievement' = [achievement EXCEPT
                                         ![<<authority, achievement_id>>] = a]
                   /\ user_profile' = [user_profile EXCEPT ![authority] = p2]
                   /\ last' = ix
                   /\ UNCHANGED <<quiz_result, clock>>

update_streak_u64(authority, overflow_checks) ==
    LET ix == [ix |-> "update_streak", authority |-> authority, result |-> "Ok"]
    IN  IF ~ProfileLoaded(authority)
        THEN Rejected(ix, "AccountNotInitialized")
        ELSE
          LET profile == user_profile[authority]
              current_time == clock
              time_since_last_active == current_time - profile.last_active
              streak == AddU64(profile.streak, 1)
              p1 == IF time_since_last_active <= StreakWindow
                    THEN [profile EXCEPT !.streak = streak.value]
                    ELSE [profile EXCEPT !.streak = U64(1)]
              p2 == [p1 EXCEPT !.last_active = current_time]
          IN  /\ ~LessU64(U64(MaxStreak), p1.streak) \/ ~LessU64(p1.streak, BelowMax(1))
              /\ IF /\ overflow_checks
                    /\ time_since_last_active <= StreakWindow
                    /\ streak.overflow
                 THEN Rejected(ix, "ProgramPanicked")
                 ELSE /\ user_profile' = [user_profile EXCEPT ![authority] = p2]
                      /\ last' = ix
                      /\ UNCHANGED <<quiz_result, achievement, clock>>

SubmitQuizU64 ==
    \E a \in Authorities, q \in QuizIds, c \in ScoreCards, oc \in BOOLEAN :
        submit_quiz_u64(a, q, c[1], c[2], oc)

AwardAchievementU64 ==
    \E a \in Authorities, i \in AchievementIds, n \in AchievementNames,
       t \in AchievementTier, oc \in BOOLEAN :
        award_achievement_u64(a, i, n, t, oc)

UpdateStreakU64 ==
    \E a \in Authorities, oc \in BOOLEAN : update_streak_u64(a, oc)

NextOverflow ==
    \/ SubmitQuizU64
    \/ AwardAchievementU64
    \/ UpdateStreakU64

SpecOverflow == InitOverflow /\ [][NextOverflow]_vars

(* ------------------------------------------------------------ properties *)

\* The last instruction, when it was `name` and returned Ok.
Succeeded(name) == last.ix = name /\ last.result = "Ok"

\* C1: a submit_quiz with score <= total_questions on an existing profile and
\* a fresh quiz_id stores xp_earned = score*10 + (50 if score = total_questions
\* else 0) in the quiz result and adds exactly that to the profile's xp.
C1_XpEarnedCredited ==
    [][\A a \in Authorities, q \in QuizIds, c \in ScoreCards :
        (/\ last'.ix = "submit_quiz"
         /\ c[1] <= c[2]
         /\ user_profile[a] # NoAccount
         /\ quiz_result[<<a, q>>] = NoAccount
         /\ submit_quiz(a, q, c[1], c[2]))
        => /\ last'.result = "Ok"
           /\ quiz_result'[<<a, q>>] # NoAccount
           /\ quiz_result'[<<a, q>>].xp_earned
                = c[1] * 10 + (IF c[1] = c[2] THEN 50 ELSE 0)
           /\ user_profile'[a].xp
                = user_profile[a].xp + quiz_result'[<<a, q>>].xp_earned]_vars

\* C1 witness: the 0/0 submission was accepted as a perfect score, and a
\* 255/255 submission was paid 2600.
C1_Witness ==
    /\ Succeeded("submit_quiz")
    /\ \E a \in Authorities :
        /\ quiz_result[<<a, "q1">>] # NoAccount
        /\ quiz_result[<<a, "q1">>].score = 0
        /\ quiz_result[<<a, "q1">>].total_questions = 0
        /\ quiz_result[<<a, "q1">>].xp_earned = 50
        /\ quiz_result[<<a, "q2">>] # NoAccount
        /\ quiz_result[<<a, "q2">>].score = 255
        /\ quiz_result[<<a, "q2">>].xp_earned = 2600
        /\ user_profile[a].xp = 2650

\* C2 as stated: every submit_quiz with score > total_questions on an existing
\* profile fails with InvalidScore and changes no account.
C2_Original ==
    [][\A a \in Authorities, q \in QuizIds, c \in ScoreCards :
        (/\ last'.ix = "submit_quiz"
         /\ c[1] > c[2]
         /\ user_profile[a] # NoAccount
         /\ submit_quiz(a, q, c[1], c[2]))
        => /\ last'.result = "InvalidScore"
           /\ UNCHANGED accounts]_vars

\* C2 amended: every submit_quiz with score > total_questions fails and changes
\* no account; the failure is InvalidScore when the profile exists and the
\* quiz_id is fresh, and the account validation's own error otherwise.
C2_InvalidScoreRejected ==
    [][\A a \in Authorities, q \in QuizIds, c \in ScoreCards :
        (/\ last'.ix = "submit_quiz"
         /\ c[1] > c[2]
         /\ submit_quiz(a, q, c[1], c[2]))
        => /\ last'.result # "Ok"
           /\ UNCHANGED accounts
           /\ (user_profile[a] # NoAccount /\ quiz_result[<<a, q>>] = NoAccount)
                => last'.result = "InvalidScore"
           /\ (user_profile[a] = NoAccount \/ quiz_result[<<a, q>>] # NoAccount)
                => last'.result \in {"AccountNotInitialized",
                                     "AccountAlreadyInUse"}]_vars

\* C2 witness: a submission was rejected with InvalidScore on a profile that
\* had already earned xp.
C2_Witness ==
    /\ last.ix = "submit_quiz"
    /\ last.result = "InvalidScore"
    /\ user_profile[last.authority].xp > 0

\* C3 as stated: every existing profile has level = xp / 100 + 1.
C3_LevelAlwaysDerived ==
    \A a \in Authorities :
        user_profile[a] # NoAccount
            => user_profile[a].level = (user_profile[a].xp \div 100) + 1

\* C4: right after a successful submit_quiz the profile's level is
\* xp / 100 + 1 of the xp it now holds.
C4_LevelAfterSubmit ==
    Succeeded("submit_quiz")
        => user_profile[last.authority].level
             = (user_profile[last.authority].xp \div 100) + 1

\* C4 witness: the submission followed an award whose bonus the level had not
\* counted; the recomputed level counts it.
C4_Witness ==
    /\ Succeeded("submit_quiz")
    /\ \E a \in Authorities :
        /\ achievement[<<a, "first_perfect">>] # NoAccount
        /\ achievement[<<a, "first_perfect">>].tier = "Gold"
        /\ user_profile[a].quizzes_completed = 1
        /\ user_profile[a].xp = 280
        /\ user_profile[a].level = 3

\* C5: a successful award_achievement adds the tier's bonus (Bronze 50,
\* Silver 100, Gold 200, Platinum 500) to xp and 1 to achievements_earned and
\* changes no other field of the profile.
C5_AwardFrame ==
    [][\A a \in Authorities, i \in AchievementIds, n \in AchievementNames,
          t \in AchievementTier :
        (/\ last'.ix = "award_achievement"
         /\ user_profile[a] # NoAccount
         /\ achievement[<<a, i>>] = NoAccount
         /\ award_achievement(a, i, n, t))
        => /\ last'.result = "Ok"
           /\ user_profile'[a] =
                [user_profile[a] EXCEPT
                    !.xp = @ + (CASE t = "Bronze" -> 50
                                  [] t = "Silver" -> 100
                                  [] t = "Gold" -> 200
                                  [] t = "Platinum" -> 500),
                    !.achievements_earned = @ + 1]]_vars

\* C5 witness: a Platinum award on a profile with a quiz behind it.
C5_Witness ==
    /\ Succeeded("award_achievement")
    /\ \E a \in Authorities :
        /\ achievement[<<a, "first_perfect">>] # NoAccount
        /\ achievement[<<a, "first_perfect">>].tier = "Platinum"
        /\ user_profile[a].quizzes_completed = 1
        /\ user_profile[a].xp = 580
        /\ user_profile[a].level = 1
        /\ user_profile[a].achievements_earned = 1

\* C6: a submit_quiz for a quiz_id the authority already has a quiz result for
\* is rejected, and the quiz result, the profile and every other account are
\* as they were before the call.
C6_ResubmitRejected ==
    [][\A a \in Authorities, q \in QuizIds, c \in ScoreCards :
        (/\ last'.ix = "submit_quiz"
         /\ quiz_result[<<a, q>>] # NoAccount
         /\ submit_quiz(a, q, c[1], c[2]))
        => /\ last'.result # "Ok"
           /\ quiz_result'[<<a, q>>] = quiz_result[<<a, q>>]
           /\ user_profile'[a] = user_profile[a]
           /\ UNCHANGED accounts]_vars

\* C6 witness: a resubmission was rejected while the authority's other quiz
\* was still open, and the first attempt's 8/10 is still on record.
C6_Witness ==
    /\ last.ix = "submit_quiz"
    /\ last.result = "AccountAlreadyInUse"
    /\ quiz_result[<<last.authority, "q1">>] # NoAccount
    /\ quiz_result[<<last.authority, "q1">>].score = 8
    /\ quiz_result[<<last.authority, "q1">>].xp_earned = 80
    /\ quiz_result[<<last.authority, "q2">>] = NoAccount
    /\ user_profile[last.authority].xp = 80
    /\ user_profile[last.authority].quizzes_completed = 1

\* C7: an award_achievement for an achievement_id the authority already holds
\* is rejected, and the achievement, the profile's xp and achievements_earned
\* and every other account are as they were before the call.
C7_RegrantRejected ==
    [][\A a \in Authorities, i \in AchievementIds, n \in AchievementNames,
          t \in AchievementTier :
        (/\ last'.ix = "award_achievement"
         /\ achievement[<<a, i>>] # NoAccount
         /\ award_achievement(a, i, n, t))
        => /\ last'.result # "Ok"
           /\ achievement'[<<a, i>>] = achievement[<<a, i>>]
           /\ user_profile'[a].xp = user_profile[a].xp
           /\ user_profile'[a].achievements_earned
                = user_profile[a].achievements_earned
           /\ UNCHANGED accounts]_vars

\* C7 witness: a second grant of first_perfect was rejected; the Bronze grant
\* is counted once and credited once.
C7_Witness ==
    /\ last.ix = "award_achievement"
    /\ last.result = "AccountAlreadyInUse"
    /\ achievement[<<last.authority, "first_perfect">>].tier = "Bronze"
    /\ user_profile[last.authority].achievements_earned = 1
    /\ user_profile[last.authority].xp = 50

\* C8: update_streak on an existing profile, with elapsed = now - last_active
\* of the profile before the call: elapsed <= 86400 makes the streak the old
\* streak + 1, elapsed > 86400 makes it 1, and last_active becomes now.
C8_StreakRule ==
    [][\A a \in Authorities :
        (/\ last'.ix = "update_streak"
         /\ user_profile[a] # NoAccount
         /\ update_streak(a))
        => /\ last'.result = "Ok"
           /\ user_profile'[a].streak =
                (IF clock - user_profile[a].last_active <= 86400
                 THEN user_profile[a].streak + 1
                 ELSE 1)
           /\ user_profile'[a].last_active = clock]_vars

\* C8 witness: an update_streak exactly 86400 seconds after the profile was
\* last active incremented the streak, which two calls have brought to 2.
C8_Witness ==
    /\ Succeeded("update_streak")
    /\ clock = 86400
    /\ user_profile[last.authority].created_at = 0
    /\ user_profile[last.authority].last_active = 86400
    /\ user_profile[last.authority].quizzes_completed = 0
    /\ user_profile[last.authority].streak = 2

\* C9 as stated: a successful submit_quiz applies the streak rule to the
\* last_active the profile had before the call: more than 86400 seconds later
\* the streak becomes 1, otherwise the old streak + 1; last_active becomes now.
C9_SubmitStreakRule ==
    [][\A a \in Authorities, q \in QuizIds, c \in ScoreCards :
        (/\ last'.ix = "submit_quiz"
         /\ last'.result = "Ok"
         /\ submit_quiz(a, q, c[1], c[2]))
        => /\ user_profile'[a].streak =
                (IF clock - user_profile[a].last_active <= 86400
                 THEN user_profile[a].streak + 1
                 ELSE 1)
           /\ user_profile'[a].last_active = clock]_vars

\* The profile the scenario's user U holds, and U's records.
ScenarioFresh(p) ==
    /\ p # NoAccount
    /\ p.xp = 0 /\ p.level = 1 /\ p.streak = 0
    /\ p.quizzes_completed = 0 /\ p.achievements_earned = 0

\* C10: the scenario, step by step.  From no records, initialize_profile(U,
\* "alice") gives xp 0, level 1, streak 0; from there submit_quiz("q1", 8, 10)
\* stores xp_earned 80 and gives xp 80, level 1, quizzes_completed 1; from
\* there submit_quiz("q2", 10, 10) stores xp_earned 150 and gives xp 230,
\* level 3; from there award_achievement("first_perfect", Gold) gives xp 430,
\* achievements_earned 1, level still 3; and the level of a profile changes
\* only in a successful submit_quiz, which sets it to (new xp) / 100 + 1.
C10_Scenario ==
    [][/\ (user_profile["U"] = NoAccount /\ initialize_profile("U", "alice"))
            => ScenarioFresh(user_profile'["U"])
       /\ (/\ ScenarioFresh(user_profile["U"])
           /\ quiz_result[<<"U", "q1">>] = NoAccount
           /\ submit_quiz("U", "q1", 8, 10))
            => /\ quiz_result'[<<"U", "q1">>] # NoAccount
               /\ quiz_result'[<<"U", "q1">>].xp_earned = 80
               /\ user_profile'["U"].xp = 80
               /\ user_profile'["U"].level = 1
               /\ user_profile'["U"].quizzes_completed = 1
       /\ (/\ user_profile["U"] # NoAccount
           /\ user_profile["U"].xp = 80
           /\ user_profile["U"].level = 1
           /\ quiz_result[<<"U", "q2">>] = NoAccount
           /\ submit_quiz("U", "q2", 10, 10))
            => /\ quiz_result'[<<"U", "q2">>] # NoAccount
               /\ quiz_result'[<<"U", "q2">>].xp_earned = 150
               /\ user_profile'["U"].xp = 230
               /\ user_profile'["U"].level = 3
       /\ (/\ user_profile["U"] # NoAccount
           /\ user_profile["U"].xp = 230
           /\ user_profile["U"].level = 3
           /\ user_profile["U"].achievements_earned = 0
           /\ achievement[<<"U", "first_perfect">>] = NoAccount
           /\ award_achievement("U", "first_perfect", "First Perfect", "Gold"))
            => /\ user_profile'["U"].xp = 430
               /\ user_profile'["U"].achievements_earned = 1
               /\ user_profile'["U"].level = 3
       /\ (user_profile["U"] # NoAccount)
            => IF last'.ix = "submit_quiz" /\ last'.result = "Ok"
               THEN user_profile'["U"].level
                      = (user_profile'["U"].xp \div 100) + 1
               ELSE user_profile'["U"].level = user_profile["U"].level
      ]_vars

\* C10 witness: the state the scenario ends in, the Gold award just made.
C10_Witness ==
    /\ Succeeded("award_achievement")
    /\ user_profile["U"] # NoAccount
    /\ user_profile["U"].username = "alice"
    /\ quiz_result[<<"U", "q1">>] # NoAccount
    /\ quiz_result[<<"U", "q1">>].score = 8
    /\ quiz_result[<<"U", "q1">>].total_questions = 10
    /\ quiz_result[<<"U", "q1">>].xp_earned = 80
    /\ quiz_result[<<"U", "q2">>] # NoAccount
    /\ quiz_result[<<"U", "q2">>].score = 10
    /\ quiz_result[<<"U", "q2">>].total_questions = 10
    /\ quiz_result[<<"U", "q2">>].xp_earned = 150
    /\ achievement[<<"U", "first_perfect">>] # NoAccount
    /\ achievement[<<"U", "first_perfect">>].tier = "Gold"
    /\ user_profile["U"].xp = 430
    /\ user_profile["U"].level = 3
    /\ user_profile["U"].quizzes_completed = 2
    /\ user_profile["U"].achievements_earned = 1

C12_CountersMonotone ==
    [][\A a \in Authorities :
        user_profile[a] # NoAccount
        => /\ user_profile'[a] # NoAccount
           /\ user_profile'[a].xp >= user_profile[a].xp
           /\ user_profile'[a].quizzes_completed
                >= user_profile[a].quizzes_completed
           /\ user_profile'[a].achievements_earned
                >= user_profile[a].achievements_earned]_vars

\* C12 witness: a call was rejected on a profile all three of whose counters
\* had grown.
C12_Witness ==
    /\ last.ix \in {"initialize_profile", "submit_quiz", "award_achievement"}
    /\ last.result # "Ok"
    /\ user_profile[last.authority] # NoAccount
    /\ user_profile[last.authority].xp = 2850
    /\ user_profile[last.authority].quizzes_completed = 2
    /\ user_profile[last.authority].achievements_earned = 1

\* C13 as stated: in every step a profile's streak does not decrease, an
\* update_streak after more than 86400 seconds included.
C13_Original ==
    [][\A a \in Authorities :
        user_profile[a] # NoAccount
        => user_profile'[a].streak >= user_profile[a].streak]_vars

\* C13 amended: a profile's streak does not decrease in any step but a
\* successful update_streak made more than 86400 seconds after last_active,
\* which sets it to 1 whatever it was.
C13_StreakMonotoneButReset ==
    [][\A a \in Authorities :
        user_profile[a] # NoAccount
        => IF /\ last'.ix = "update_streak"
              /\ last'.result = "Ok"
              /\ clock - user_profile[a].last_active > 86400
           THEN user_profile'[a].streak = 1
           ELSE user_profile'[a].streak >= user_profile[a].streak]_vars

\* C13 witness: an update_streak has reset to 1 a streak that two quiz
\* submissions had taken to 2 or more.
C13_Witness ==
    /\ Succeeded("update_streak")
    /\ user_profile[last.authority].quizzes_completed = 2
    /\ user_profile[last.authority].streak = 1

\* C14: initialize_profile for an authority without a profile creates one with
\* owner = caller, xp 0, level 1, streak 0, no quizzes, no achievements and
\* created_at = last_active = now; for an authority that has one it is
\* rejected and the profile is unchanged.
C14_InitializeProfile ==
    [][\A a \in Authorities, n \in Usernames :
        (last'.ix = "initialize_profile" /\ initialize_profile(a, n))
        => IF user_profile[a] = NoAccount
           THEN /\ last'.result = "Ok"
                /\ user_profile'[a] =
                     [exists |-> TRUE, authority |-> a, username |-> n,
                      xp |-> 0, level |-> 1, streak |-> 0,
                      quizzes_completed |-> 0, achievements_earned |-> 0,
                      created_at |-> clock, last_active |-> clock]
           ELSE /\ last'.result # "Ok"
                /\ UNCHANGED accounts]_vars

\* C14 witness: a second initialize_profile was rejected on a profile that
\* holds xp, a level above 1, a streak and both kinds of record.
C14_Witness ==
    /\ last.ix = "initialize_profile"
    /\ last.result = "AccountAlreadyInUse"
    /\ user_profile[last.authority].xp = 350
    /\ user_profile[last.authority].level = 2
    /\ user_profile[last.authority].streak = 1
    /\ user_profile[last.authority].quizzes_completed = 1
    /\ user_profile[last.authority].achievements_earned = 1

\* C15: a quiz result or an achievement, once created, is never changed and
\* never removed by any later step.
C15_RecordsAppendOnly ==
    [][/\ \A k \in DOMAIN quiz_result :
            quiz_result[k] # NoAccount => quiz_result'[k] = quiz_result[k]
       /\ \A k \in DOMAIN achievement :
            achievement[k] # NoAccount => achievement'[k] = achievement[k]]_vars

\* C15 witness: a quiz result and an achievement written at time 0 stand as
\* written after the clock has moved on and a second quiz has been submitted.
C15_Witness ==
    /\ Succeeded("submit_quiz")
    /\ clock = 172800
    /\ quiz_result[<<"U", "q1">>] # NoAccount
    /\ quiz_result[<<"U", "q1">>].completed_at = 0
    /\ quiz_result[<<"U", "q1">>].xp_earned = 80
    /\ achievement[<<"U", "first_perfect">>] # NoAccount
    /\ achievement[<<"U", "first_perfect">>].awarded_at = 0
    /\ quiz_result[<<"U", "q2">>] # NoAccount
    /\ quiz_result[<<"U", "q2">>].completed_at = 172800

\* C16: with a clock that never runs backwards, every profile has
\* last_active >= created_at.
C16_LastActiveNotBeforeCreated ==
    \A a \in Authorities :
        user_profile[a] # NoAccount
            => user_profile[a].last_active >= user_profile[a].created_at

\* C16 witness: a profile created at 86400 whose last activity is an
\* update_streak at 172800.
C16_Witness ==
    /\ Succeeded("update_streak")
    /\ user_profile[last.authority].created_at = 86400
    /\ user_profile[last.authority].last_active = 172800

\* C17: every successful submit_quiz raises the streak by exactly 1, however
\* long ago the profile was last active, and a step that takes a streak of 1
\* or more to 1 from another value is a successful update_streak.
C17_SubmitNeverResets ==
    [][\A a \in Authorities :
        user_profile[a] # NoAccount
        => /\ (last'.ix = "submit_quiz" /\ last'.result = "Ok")
                => user_profile'[a].streak = user_profile[a].streak + 1
           /\ (user_profile'[a].streak = 1 /\ user_profile[a].streak > 1)
                => (last'.ix = "update_streak" /\ last'.result = "Ok")]_vars

\* C17 witness: a quiz submitted 86401 seconds after the previous activity
\* took the streak from 3 to 4.
C17_Witness ==
    /\ Succeeded("submit_quiz")
    /\ clock = 86401
    /\ quiz_result[<<"U", "q1">>] # NoAccount
    /\ quiz_result[<<"U", "q1">>].completed_at = 0
    /\ quiz_result[<<"U", "q2">>] # NoAccount
    /\ quiz_result[<<"U", "q2">>].completed_at = 86401
    /\ user_profile["U"].streak = 4

\* The sum of f[k] over the keys k in S.
RECURSIVE SumOver(_, _)
SumOver(f, S) ==
    IF S = {} THEN 0
    ELSE LET k == CHOOSE x \in S : TRUE IN f[k] + SumOver(f, S \ {k})

\* The quiz results and the achievements created for authority a.
QuizResultsOf(a) ==
    {k \in DOMAIN quiz_result : quiz_result[k] # NoAccount /\ quiz_result[k].user = a}

AchievementsOf(a) ==
    {k \in DOMAIN achievement : achievement[k] # NoAccount /\ achievement[k].user = a}

\* C18: every profile's quizzes_completed is the number of quiz results of its
\* authority, and its achievements_earned the number of its achievements.
C18_CountersMatchRecords ==
    \A a \in Authorities :
        user_profile[a] # NoAccount
        => /\ user_profile[a].quizzes_completed
                = Cardinality(QuizResultsOf(user_profile[a].authority))
           /\ user_profile[a].achievements_earned
                = Cardinality(AchievementsOf(user_profile[a].authority))

\* C18 witness: two quiz results and one achievement, counted 2 and 1, after
\* a resubmission of q1 was turned away.
C18_Witness ==
    /\ last.ix = "submit_quiz"
    /\ last.result = "AccountAlreadyInUse"
    /\ Cardinality(QuizResultsOf("U")) = 2
    /\ Cardinality(AchievementsOf("U")) = 1
    /\ user_profile["U"].quizzes_completed = 2
    /\ user_profile["U"].achievements_earned = 1

\* C19: every profile's xp is the sum of xp_earned over its authority's quiz
\* results plus the sum of the tier bonuses (Bronze 50, Silver 100, Gold 200,
\* Platinum 500) over its authority's achievements.
C19_XpMatchesRecords ==
    \A a \in Authorities :
        user_profile[a] # NoAccount
        => user_profile[a].xp
             = SumOver([k \in DOMAIN quiz_result |-> quiz_result[k].xp_earned],
                       QuizResultsOf(user_profile[a].authority))
               + SumOver([k \in DOMAIN achievement |->
                            CASE achievement[k].tier = "Bronze" -> 50
                              [] achievement[k].tier = "Silver" -> 100
                              [] achievement[k].tier = "Gold" -> 200
                              [] achievement[k].tier = "Platinum" -> 500],
                         AchievementsOf(user_profile[a].authority))

\* C19 witness: xp 2880 made of quiz results worth 2600 and 80 and a Gold
\* achievement, with an update_streak, which credits nothing, as last call.
C19_Witness ==
    /\ Succeeded("update_streak")
    /\ user_profile["U"].xp = 2880
    /\ Cardinality(QuizResultsOf("U")) = 2
    /\ achievement[<<"U", "first_perfect">>] # NoAccount
    /\ achievement[<<"U", "first_perfect">>].tier = "Gold"

\* Whether the level stored in profile p differs from the one its xp gives.
Lagging(p) == p.level # (p.xp \div 100) + 1

\* C20: every profile has 1 <= level <= xp / 100 + 1; no step lowers a level;
\* a level falls behind xp / 100 + 1 only in a successful award_achievement
\* and, once behind, catches up only in a successful submit_quiz.
C20_LevelBoundedMonotone ==
    [][\A a \in Authorities :
        /\ user_profile'[a] # NoAccount
            => /\ 1 <= user_profile'[a].level
               /\ user_profile'[a].level <= (user_profile'[a].xp \div 100) + 1
        /\ user_profile[a] # NoAccount
            => /\ user_profile'[a].level >= user_profile[a].level
               /\ (~Lagging(user_profile[a]) /\ Lagging(user_profile'[a]))
                    => (last'.ix = "award_achievement" /\ last'.result = "Ok")
               /\ (Lagging(user_profile[a]) /\ ~Lagging(user_profile'[a]))
                    => (last'.ix = "submit_quiz" /\ last'.result = "Ok")]_vars

\* C20 witness: a level that a Platinum award had left behind has been
\* brought to 7, the level of xp 660, by the quiz that followed.
C20_Witness ==
    /\ Succeeded("submit_quiz")
    /\ achievement[<<"U", "first_perfect">>] # NoAccount
    /\ achievement[<<"U", "first_perfect">>].tier = "Platinum"
    /\ user_profile["U"].quizzes_completed = 2
    /\ user_profile["U"].xp = 660
    /\ user_profile["U"].level = 7

====
